---- MODULE Spec2Model ----
\* A model of my-data-reflection (src/app.py): one run of the Streamlit script.
\* The run loads the four worksheets through get_data, reads the sidebar
\* (menu and weight sliders), and renders the chosen page: page 3 computes the
\* weighted ranking and the memo keywords, page 4 the kNN neighbour list, pages
\* 2 and 5 hold the entry forms, whose submit handlers append to the store
\* through add_data and rerun the script.
\*
\* Conventions
\*   - A sheet cell is a tagged tuple: NA (an empty cell, pandas NaN/NA),
\*     Num(n) (a number) or Str(s) (text; s is a sequence of characters, each
\*     character a one-element string, Hangul syllables written romanised).
\*   - A normalised value and a composite score are exact fractions <<n, d>>
\*     with d > 0 (the code computes them in float64).
\*   - Weights are kept in tenths: the slider value 1.0 is 10.
EXTENDS Integers, Sequences, FiniteSets, TLC

VARIABLES sheets, faulty, menu, w, pc, df, rank, kw, sim, form

vars == <<sheets, faulty, menu, w, pc, df, rank, kw, sim, form>>

\* ---------------------------------------------------------------- bounds
\* Longest activities sheet of the full run (InitMain).
MaxRows == 3
\* Number of fixture rows the ranking sheets are drawn from (InitRank).
MaxRankRows == 11
\* Longest activities sheet of the similarity runs (InitSim).
MaxSimRows == 5
\* Number of distinct two-letter words in each long memo (InitKw).
MemoWords == 16
\* Longest activities sheet of the keyword runs (InitKw).
MaxKwRows == 2
\* The entry forms append to a worksheet while it holds fewer rows (InitForm).
MaxStoreRows == 3

\* ------------------------------------------------------- program constants
\* tail(10) of the ranking
TopN == 10
\* most_common(30) of the keyword counter
MaxKeywords == 30
\* min(4, len(act_df)) neighbours are queried
KnnK == 4
\* len(df_activities) >= 3 guards page 4
MinSimRows == 3
\* one slider unit (1.0) in tenths
WScale == 10

\* ------------------------------------------------------------------ cells
NA == <<"na">>
Num(n) == <<"num", n>>
Str(s) == <<"str", s>>
IsNA(c) == c[1] = "na"
IsNum(c) == c[1] = "num"
IsStr(c) == c[1] = "str"

Digits == <<"0", "1", "2", "3", "4", "5", "6", "7", "8", "9">>
IsDigit(ch) == \E i \in 1..Len(Digits) : Digits[i] = ch
DigitValue(ch) == (CHOOSE i \in 1..Len(Digits) : Digits[i] = ch) - 1

RECURSIVE ParseDigits(_, _)
ParseDigits(s, acc) ==
    IF s = <<>> THEN acc
    ELSE ParseDigits(Tail(s), acc * 10 + DigitValue(Head(s)))

\* pd.to_numeric(col, errors='coerce') on one cell: a number stays, text that
\* is an unsigned integer literal parses, anything else becomes NaN.
to_numeric(c) ==
    IF IsNum(c) THEN c
    ELSE IF IsStr(c) /\ c[2] # <<>> /\ \A i \in 1..Len(c[2]) : IsDigit(c[2][i])
         THEN Num(ParseDigits(c[2], 0))
         ELSE NA

\* .fillna(0) on one cell
fillna0(c) == IF IsNA(c) THEN Num(0) ELSE c

coerce_mut(c) == IF IsNA(to_numeric(c)) THEN Num(1) ELSE to_numeric(c)
\* pd.to_numeric(..., errors='coerce').fillna(0)
coerce(c) == fillna0(to_numeric(c))

\* ---------------------------------------------------------------- schema
Worksheets == {"subjects", "activities", "books", "questions"}

COLS_SUBJECTS == <<"name", "field", "desc", "NFC", "NCC", "memo">>
COLS_ACTIVITIES == <<"name", "type", "desc", "nAch", "nPow", "nAff", "Flow", "memo">>
COLS_BOOKS == <<"name", "complexity", "meaning">>
COLS_QUESTIONS == <<"item", "material", "content">>

Columns(ws) ==
    CASE ws = "subjects" -> COLS_SUBJECTS
      [] ws = "activities" -> COLS_ACTIVITIES
      [] ws = "books" -> COLS_BOOKS
      [] ws = "questions" -> COLS_QUESTIONS

\* the columns get_data coerces for each worksheet
NumericCols(ws) ==
    CASE ws = "subjects" -> <<"NFC", "NCC">>
      [] ws = "activities" -> <<"nAch", "nPow", "nAff", "Flow">>
      [] ws = "books" -> <<"complexity">>
      [] ws = "questions" -> <<>>

Range(s) == {s[i] : i \in 1..Len(s)}

\* a function on 1..n as a tuple (its elements computed once)
AsSeq(f) == f \o <<>>

RECURSIVE CoerceRow(_, _)
\* df[col] = pd.to_numeric(df[col], errors='coerce').fillna(0) for col in cols,
\* seen on one row
CoerceRow(r, cols) ==
    IF cols = <<>> THEN r
    ELSE CoerceRow([r EXCEPT ![Head(cols)] = coerce(@)], Tail(cols))

\* A DataFrame: its column schema and its rows (each a function column -> cell).
DataFrame(columns, rows) == [columns |-> columns, rows |-> rows]

\* dropna(how='all'): drop the rows whose every cell is NA
dropna_all(rows) ==
    LET Keep(r) == \E c \in DOMAIN r : ~IsNA(r[c])
    IN SelectSeq(rows, Keep)

\* get_data(worksheet_name, columns): the read raised -> an empty frame with the
\* schema; otherwise coerce the numeric columns, then drop the all-NA rows.
\* (A column the sheet lacks is created as NA: here such a sheet has NA cells.)
get_data_mut(ws, sheetRows, readRaises) ==
    DataFrame(Columns(ws),
              dropna_all(AsSeq([i \in 1..Len(sheetRows) |->
                                   CoerceRow(sheetRows[i], NumericCols(ws))])))
get_data(ws, sheetRows, readRaises) ==
    IF readRaises THEN DataFrame(Columns(ws), <<>>)
    ELSE LET coerced == AsSeq([i \in 1..Len(sheetRows) |->
                                  CoerceRow(sheetRows[i], NumericCols(ws))])
         IN DataFrame(Columns(ws), dropna_all(coerced))

\* --------------------------------------------------- page 3: ranking
TraitCols == <<"nAch", "nPow", "nAff", "Flow">>

Min(S) == CHOOSE x \in S : \A y \in S : x <= y
Max(S) == CHOOSE x \in S : \A y \in S : x >= y

\* act_df[c] = pd.to_numeric(act_df[c], errors='coerce').fillna(0) for c in cols
CoerceColumns(rows, cols) == AsSeq([i \in 1..Len(rows) |-> CoerceRow(rows[i], cols)])

\* the numbers of column c
NumericColumn(rows, c) == AsSeq([i \in 1..Len(rows) |-> rows[i][c][2]])

NormalizeColumn_mut(vals) ==
    LET min_val == Min(Range(vals))
        max_val == Max(Range(vals))
    IN IF max_val - min_val = 0
       THEN AsSeq([i \in 1..Len(vals) |-> <<0, 1>>])
       ELSE AsSeq([i \in 1..Len(vals) |-> <<vals[i], max_val>>])
\* min-max normalisation of one column (vals is non-empty and holds numbers, so
\* neither min nor max is NaN): 0.5 for a constant column
NormalizeColumn(vals) ==
    LET min_val == Min(Range(vals))
        max_val == Max(Range(vals))
    IN IF max_val - min_val = 0
       THEN AsSeq([i \in 1..Len(vals) |-> <<1, 2>>])
       ELSE AsSeq([i \in 1..Len(vals) |-> <<vals[i] - min_val, max_val - min_val>>])

\* the four *_norm columns: norm[c][i] is row i's normalised value of column c
Normalize(rows) ==
    [nAch |-> NormalizeColumn(NumericColumn(rows, "nAch")),
     nPow |-> NormalizeColumn(NumericColumn(rows, "nPow")),
     nAff |-> NormalizeColumn(NumericColumn(rows, "nAff")),
     Flow |-> NormalizeColumn(NumericColumn(rows, "Flow"))]

RECURSIVE Product(_, _)
Product(f, S) ==
    IF S = {} THEN 1
    ELSE LET x == CHOOSE y \in S : TRUE IN f[x] * Product(f, S \ {x})

RECURSIVE Sum(_, _)
Sum(f, S) ==
    IF S = {} THEN 0
    ELSE LET x == CHOOSE y \in S : TRUE IN f[x] + Sum(f, S \ {x})

\* every row of a column has the same denominator
ColDen(norm) ==
    [nAch |-> norm.nAch[1][2], nPow |-> norm.nPow[1][2], nAff |-> norm.nAff[1][2],
     Flow |-> norm.Flow[1][2]]

My_Score_mut(norm, wv) ==
    LET den == ColDen(norm)
        D == Product(den, DOMAIN den)
        N == Len(norm[CHOOSE c \in DOMAIN norm : TRUE])
    IN AsSeq([i \in 1..N |->
          <<Sum([c \in DOMAIN norm |-> norm[c][i][1] * wv[c] * wv[c] * (D \div den[c])],
                DOMAIN norm),
            D * WScale * WScale>>])
\* My_Score = sum over the four columns of norm * weight, as one fraction over
\* the common denominator (product of the column denominators, times WScale
\* because the weights are in tenths)
My_Score(norm, wv) ==
    LET den == ColDen(norm)
        D == Product(den, DOMAIN den)
        N == Len(norm[CHOOSE c \in DOMAIN norm : TRUE])
    IN AsSeq([i \in 1..N |->
          <<Sum([c \in DOMAIN norm |-> norm[c][i][1] * wv[c] * (D \div den[c])],
                DOMAIN norm),
            D * WScale>>])

\* a / b = c / d for fractions with positive denominators
FracEq(x, y) == x[1] * y[2] = y[1] * x[2]
\* the scores of one ranking share their denominator: they compare by numerator
ScoreLeq(x, y) == x[1] <= y[1]

RECURSIVE AscendingOrders(_, _)
\* sort_values('My_Score', ascending=True): every ordering of the row indices
\* in S by non-decreasing score. The default sort kind is not stable, so rows
\* with equal scores may come out in any order.
AscendingOrders(score, S) ==
    IF S = {} THEN {<<>>}
    ELSE LET least == {i \in S : \A j \in S : ScoreLeq(score[i], score[j])}
         IN UNION {{<<i>> \o rest : rest \in AscendingOrders(score, S \ {i})} : i \in least}

tail_mut(s, n) == IF Len(s) <= n THEN s ELSE SubSeq(s, 1, n)
\* .tail(n): the last n elements
tail(s, n) == IF Len(s) <= n THEN s ELSE SubSeq(s, Len(s) - n + 1, Len(s))

\* --------------------------------------------------- page 3: keywords
Whitespace == {" "}
\* the characters of the fixtures that are not \w
NonWordChars == {" ", ".", ",", "!", "?"}
IsWordChar(ch) == ch \notin NonWordChars

RECURSIVE IntToChars(_)
\* str(n) for an integer n >= 0
IntToChars(n) ==
    IF n < 10 THEN <<Digits[n + 1]>>
    ELSE Append(IntToChars(n \div 10), Digits[(n % 10) + 1])

\* .astype(str) on one non-NA cell
astype_str(c) == IF IsNum(c) THEN IntToChars(c[2]) ELSE c[2]

\* df[col].dropna().astype(str).tolist(), or nothing when the frame is empty
ColumnTexts(frame, col) ==
    LET NotNA(r) == ~IsNA(r[col])
        kept == SelectSeq(frame.rows, NotNA)
    IN AsSeq([i \in 1..Len(kept) |-> astype_str(kept[i][col])])

RECURSIVE Join(_)
\* " ".join(texts)
Join(texts) ==
    IF texts = <<>> THEN <<>>
    ELSE IF Len(texts) = 1 THEN texts[1]
    ELSE texts[1] \o <<" ">> \o Join(Tail(texts))

\* bool(all_text.strip()): some character is not whitespace
StripNonEmpty(text) == \E i \in 1..Len(text) : text[i] \notin Whitespace

RECURSIVE Flatten(_, _, _)
\* f[lo] \o ... \o f[hi] for a function f of sequences
Flatten(f, lo, hi) ==
    IF lo > hi THEN <<>>
    ELSE IF lo = hi THEN f[lo]
    ELSE LET mid == (lo + hi) \div 2
         IN Flatten(f, lo, mid) \o Flatten(f, mid + 1, hi)

\* re.findall(r'\w+', text): the maximal runs of word characters, in order. A
\* run starts at a word character that follows no word character and ends
\* before the next non-word character.
findall(text) ==
    LET n == Len(text)
        isWord == AsSeq([i \in 1..n |-> IsWordChar(text[i])])
        EndOf(i) == Min({j \in i..n : j = n \/ ~isWord[j + 1]})
        run == AsSeq([i \in 1..n |->
                         IF isWord[i] /\ (i = 1 \/ ~isWord[i - 1])
                         THEN <<SubSeq(text, i, EndOf(i))>> ELSE <<>>])
    IN Flatten(run, 1, n)

\* stop_words of line 344, in order: 하는 있는 가장 통해 대한 것이 내가 나의 함 음
\* 는 은 이 가 을 를 nan None
stop_words ==
    {<<"HA", "NEUN">>, <<"ISS", "NEUN">>, <<"GA", "JANG">>, <<"TONG", "HAE">>,
     <<"DAE", "HAN">>, <<"GEOS", "I">>, <<"NAE", "GA">>, <<"NA", "UI">>,
     <<"HAM">>, <<"EUM">>, <<"NEUN">>, <<"EUN">>, <<"I">>, <<"GA">>, <<"EUL">>,
     <<"REUL">>, <<"n", "a", "n">>, <<"N", "o", "n", "e">>}

KeepWord_mut(word) == Len(word) > 1
\* len(w) > 1 and w not in stop_words
KeepWord(word) == Len(word) > 1 /\ word \notin stop_words

\* Counter(words).items(): (token, count) in first-encountered order
Counter(words) ==
    LET n == Len(words)
        entry == AsSeq([i \in 1..n |->
                           IF \A j \in 1..(i - 1) : words[j] # words[i]
                           THEN <<<<words[i], Cardinality({j \in 1..n : words[j] = words[i]})>>>>
                           ELSE <<>>])
    IN Flatten(entry, 1, n)

\* the position of each item when sorted by count, highest first, equal counts
\* in their given order
CountRank(items) ==
    AsSeq([i \in 1..Len(items) |->
              Cardinality({j \in 1..Len(items) :
                              \/ items[j][2] > items[i][2]
                              \/ items[j][2] = items[i][2] /\ j < i}) + 1])

most_common_mut(items, n) ==
    LET rk == CountRank(items)
    IN AsSeq([k \in 1..Len(items) |-> items[CHOOSE i \in 1..Len(items) : rk[i] = k]])
\* .most_common(n): by count, highest first, equal counts in first-encountered
\* order; at most n entries
most_common(items, n) ==
    LET rk == CountRank(items)
        m == IF Len(items) < n THEN Len(items) ELSE n
    IN AsSeq([k \in 1..m |-> items[CHOOSE i \in 1..Len(items) : rk[i] = k]])

\* word_counts of lines 343-346
WordCounts(all_text) ==
    most_common(Counter(SelectSeq(findall(all_text), KeepWord)),
                MaxKeywords)

\* --------------------------------------------------- page 4: similarity
numeric_cols == <<"nAch", "nPow", "nAff">>

\* squared Euclidean distance over numeric_cols (the distance itself is its
\* square root, so both order the rows alike)
Dist2(r, t) ==
    Sum([c \in Range(numeric_cols) |-> (r[c][2] - t[c][2]) * (r[c][2] - t[c][2])],
        Range(numeric_cols))

\* act_df['경험명'] == selected, cell by cell: NaN equals nothing, itself included
NameEq(c, selected) == ~IsNA(c) /\ ~IsNA(selected) /\ c = selected

RECURSIVE NearestOrders(_, _, _)
\* knn.kneighbors(target_vec)[1][0]: k row positions by non-decreasing distance
\* to the target; scikit-learn leaves the order of equidistant rows (and which
\* of them make the cut) unspecified, so every such outcome is possible.
NearestOrders(d, S, k) ==
    IF k = 0 \/ S = {} THEN {<<>>}
    ELSE LET least == {i \in S : \A j \in S : d[i] <= d[j]}
         IN UNION {{<<i>> \o rest : rest \in NearestOrders(d, S \ {i}, k - 1)} : i \in least}

EnoughForSimilarity_mut(rows) == Len(rows) + 1 >= MinSimRows
\* len(df_activities) >= 3
EnoughForSimilarity(rows) == Len(rows) >= MinSimRows

n_neighbors(rows) == IF Len(rows) < KnnK THEN Len(rows) ELSE KnnK

neighbor_indices_mut(indices) == indices
\* indices[0][1:]
neighbor_indices(indices) == Tail(indices)

\* ------------------------------------------------------------ the run
NoRank == [branch |-> "none", act_df |-> <<>>, norm |-> <<>>, My_Score |-> <<>>,
           top_df |-> <<>>]
NoKw == [branch |-> "none", all_text |-> <<>>, word_counts |-> <<>>]
NoSim == [branch |-> "none", pca |-> FALSE, knn |-> FALSE, act_df |-> <<>>,
          selected |-> NA, anchor |-> 0, indices |-> <<>>, neighbor_indices |-> <<>>]

\* what the entry forms of one run did: the form whose button was pressed,
\* what add_data returned, the messages shown, and whether the script raised
NoForm == [submitted |-> "none", add_data |-> "not_called", success |-> FALSE,
           error |-> FALSE, warning |-> FALSE, raised |-> FALSE]

\* lines 103-108: the four get_data calls; a read of a worksheet in faulty raises
LoadData ==
    /\ pc = "load"
    /\ df' = [ws \in Worksheets |-> get_data(ws, sheets[ws], ws \in faulty)]
    /\ pc' = "page"
    /\ UNCHANGED <<sheets, faulty, menu, w, rank, kw, sim, form>>

\* lines 280-326: the ranking section of page 3
Page3Ranking ==
    /\ pc = "page"
    /\ menu = "3"
    /\ LET rows == df["activities"].rows
       IN IF Len(rows) >= 1
          THEN LET act_df == CoerceColumns(rows, TraitCols)
                   norm == Normalize(act_df)
                   score == My_Score(norm, w)
               IN \E order \in AscendingOrders(score, 1..Len(rows)) :
                      rank' = [branch |-> "chart", act_df |-> act_df, norm |-> norm,
                               My_Score |-> score, top_df |-> tail(order, TopN)]
          ELSE rank' = [NoRank EXCEPT !.branch = "info"]
    /\ pc' = "keywords"
    /\ UNCHANGED <<sheets, faulty, menu, w, df, kw, sim, form>>

\* lines 330-359: the keyword section of page 3
Page3Keywords ==
    /\ pc = "keywords"
    /\ LET texts == (IF df["activities"].rows # <<>>
                     THEN ColumnTexts(df["activities"], "memo") ELSE <<>>)
                    \o (IF df["subjects"].rows # <<>>
                        THEN ColumnTexts(df["subjects"], "memo") ELSE <<>>)
                    \o (IF df["books"].rows # <<>>
                        THEN ColumnTexts(df["books"], "meaning") ELSE <<>>)
           all_text == Join(texts)
       IN IF StripNonEmpty(all_text)
          THEN LET word_counts == WordCounts(all_text)
               IN kw' = [branch |-> IF word_counts # <<>> THEN "treemap" ELSE "no_keywords",
                         all_text |-> all_text, word_counts |-> word_counts]
          ELSE kw' = [branch |-> "no_memo", all_text |-> all_text, word_counts |-> <<>>]
    /\ pc' = "done"
    /\ UNCHANGED <<sheets, faulty, menu, w, df, rank, sim, form>>

\* lines 362-429: page 4. The PCA projection runs first (its coordinates only
\* place the points of the chart and are not modelled); the user then picks a
\* name in the selectbox, the first row with that name is the target, and the
\* kNN query follows. A name no row equals (NaN) makes iloc[0] raise, which the
\* except clause reports.
Page4Similarity ==
    /\ pc = "page"
    /\ menu = "4"
    /\ LET rows == df["activities"].rows
       IN IF EnoughForSimilarity(rows)
          THEN LET act_df == CoerceColumns(rows, numeric_cols)
               IN \E selected \in {act_df[i]["name"] : i \in 1..Len(act_df)} :
                    LET matches == {i \in 1..Len(act_df) : NameEq(act_df[i]["name"], selected)}
                    IN IF matches = {}
                       THEN sim' = [NoSim EXCEPT !.branch = "error", !.pca = TRUE,
                                                 !.act_df = act_df, !.selected = selected]
                       ELSE LET anchor == Min(matches)
                                d == AsSeq([i \in 1..Len(act_df) |->
                                           Dist2(act_df[i], act_df[anchor])])
                            IN \E indices \in NearestOrders(d, 1..Len(act_df), n_neighbors(act_df)) :
                                 sim' = [branch |-> "neighbors", pca |-> TRUE, knn |-> TRUE,
                                         act_df |-> act_df, selected |-> selected,
                                         anchor |-> anchor, indices |-> indices,
                                         neighbor_indices |-> neighbor_indices(indices)]
          ELSE sim' = [NoSim EXCEPT !.branch = "warning"]
    /\ pc' = "done"
    /\ UNCHANGED <<sheets, faulty, menu, w, df, rank, kw, form>>

\* --------------------------------------------------- pages 2 and 5: forms
\* add_data(worksheet_name, new_row_df, columns) on the worksheet's rows: the
\* store after the call and the value returned. When the read or the update
\* raises, the store is left as it was, st.error is shown and False returned.
add_data(existing_data, new_row_df, raises) ==
    IF raises THEN [data |-> existing_data, ret |-> FALSE]
    ELSE [data |-> Append(existing_data, new_row_df), ret |-> TRUE]

\* bool(text) of a text input
Truthy(c) == c[2] # <<>>

\* the body of a pressed submit button: with valid input add_data, st.success
\* and st.rerun follow one another (the value add_data returns is not read);
\* otherwise the warning, if the form has one, and the script goes on
Submit(id, ws, valid, new_row, hasWarning) ==
    IF valid
    THEN \E raises \in BOOLEAN :
           LET res == add_data(sheets[ws], new_row, raises)
           IN /\ sheets' = [sheets EXCEPT ![ws] = res.data]
              /\ form' = [submitted |-> id,
                          add_data |-> IF res.ret THEN "True" ELSE "False",
                          success |-> TRUE, error |-> ~res.ret, warning |-> FALSE,
                          raised |-> FALSE]
              /\ pc' = "rerun"
    ELSE /\ sheets' = sheets
         /\ form' = [NoForm EXCEPT !.submitted = id, !.warning = hasWarning]
         /\ pc' = "done"

TextInputs == {Str(<<>>), Str(<<"N">>)}

\* lines 184-204: sub_form submitted
SubFormSubmit ==
    /\ pc = "page"
    /\ menu = "2"
    /\ Len(sheets["subjects"]) < MaxStoreRows
    /\ \E s_name \in TextInputs :
         Submit("sub_form", "subjects", Truthy(s_name),
                [name |-> s_name, field |-> Str(<<"F">>), desc |-> Str(<<>>),
                 NFC |-> Num(5), NCC |-> Num(5), memo |-> Str(<<>>)], TRUE)
    /\ UNCHANGED <<faulty, menu, w, df, rank, kw, sim>>

\* lines 210-226: act_form submitted
ActFormSubmit ==
    /\ pc = "page"
    /\ menu = "2"
    /\ Len(sheets["activities"]) < MaxStoreRows
    /\ \E a_name \in TextInputs :
         Submit("act_form", "activities", Truthy(a_name),
                [name |-> a_name, type |-> Str(<<"P">>), desc |-> Str(<<>>),
                 nAch |-> Num(5), nPow |-> Num(5), nAff |-> Num(5), Flow |-> Num(50),
                 memo |-> Str(<<>>)], TRUE)
    /\ UNCHANGED <<faulty, menu, w, df, rank, kw, sim>>

\* lines 232-243: book_form submitted
BookFormSubmit ==
    /\ pc = "page"
    /\ menu = "2"
    /\ Len(sheets["books"]) < MaxStoreRows
    /\ \E b_name \in TextInputs :
         Submit("book_form", "books", Truthy(b_name),
                [name |-> b_name, complexity |-> Num(5), meaning |-> Str(<<>>)], TRUE)
    /\ UNCHANGED <<faulty, menu, w, df, rank, kw, sim>>

\* lines 440-450: new_q_form submitted (it is handled before the question
\* selectbox is reached)
NewQFormSubmit ==
    /\ pc = "page"
    /\ menu = "5"
    /\ Len(sheets["questions"]) < MaxStoreRows
    /\ \E new_q_cat \in TextInputs, new_q_content \in TextInputs :
         Submit("new_q_form", "questions", Truthy(new_q_cat) /\ Truthy(new_q_content),
                [item |-> new_q_cat, material |-> Str(<<>>), content |-> new_q_content],
                TRUE)
    /\ UNCHANGED <<faulty, menu, w, df, rank, kw, sim>>

\* df_questions['문항'].unique(): the options of the question selectbox
q_options == {df["questions"].rows[i]["item"] : i \in 1..Len(df["questions"].rows)}

\* line 458: df_questions[df_questions['문항'] == selected_q_cat].iloc[0] raises
\* IndexError when no row equals the selection (a missing name equals nothing)
TargetRaises(selected_q_cat) ==
    \A i \in 1..Len(df["questions"].rows) :
        ~NameEq(df["questions"].rows[i]["item"], selected_q_cat)

\* f"{selected_q_cat} (답변)"
save_cat_name(selected_q_cat) == Str(selected_q_cat[2] \o <<" ", "(", "DAB", "BYEON", ")">>)

\* "직접 작성", the material of a draft written without selected materials
DirectlyWritten == Str(<<"JIG", "JEOB", " ", "JAG", "SEONG">>)

\* lines 452-514: draft_form submitted (no material selected). The form exists
\* only when there are questions and the selected question's row was found;
\* empty content does nothing.
DraftFormSubmit ==
    /\ pc = "page"
    /\ menu = "5"
    /\ df["questions"].rows # <<>>
    /\ Len(sheets["questions"]) < MaxStoreRows
    /\ \E selected_q_cat \in q_options, content \in TextInputs :
         IF TargetRaises(selected_q_cat)
         THEN /\ sheets' = sheets
              /\ form' = [NoForm EXCEPT !.raised = TRUE]
              /\ pc' = "done"
         ELSE Submit("draft_form", "questions", Truthy(content),
                     [item |-> save_cat_name(selected_q_cat), material |-> DirectlyWritten,
                      content |-> content], FALSE)
    /\ UNCHANGED <<faulty, menu, w, df, rank, kw, sim>>

\* pages 2 and 5 rendered with no submit button pressed
RenderForms ==
    /\ pc = "page"
    /\ menu \in {"2", "5"}
    /\ IF menu = "5" /\ df["questions"].rows # <<>>
       THEN \E selected_q_cat \in q_options :
              form' = [NoForm EXCEPT !.raised = TargetRaises(selected_q_cat)]
       ELSE form' = NoForm
    /\ pc' = "done"
    /\ UNCHANGED <<sheets, faulty, menu, w, df, rank, kw, sim>>

\* st.rerun(): the script stops and starts again from the top, the sidebar
\* state kept
Rerun ==
    /\ pc = "rerun"
    /\ pc' = "load"
    /\ df' = [ws \in Worksheets |-> DataFrame(Columns(ws), <<>>)]
    /\ rank' = NoRank
    /\ kw' = NoKw
    /\ sim' = NoSim
    /\ form' = NoForm
    /\ UNCHANGED <<sheets, faulty, menu, w>>

\* ------------------------------------------------------------ fixtures
Act(name, ach, pow, aff, flow, memo) ==
    [name |-> name, type |-> Str(<<"P">>), desc |-> NA, nAch |-> ach, nPow |-> pow,
     nAff |-> aff, Flow |-> flow, memo |-> memo]
BlankRow(ws) == [c \in Range(Columns(ws)) |-> NA]
Subject(name, memo) ==
    [name |-> name, field |-> Str(<<"F">>), desc |-> NA, NFC |-> Num(5), NCC |-> NA,
     memo |-> memo]
Book(name, meaning) == [name |-> name, complexity |-> Str(<<"x">>), meaning |-> meaning]
Question(item, content) == [item |-> item, material |-> NA, content |-> content]

\* "좋은 경험이었다 nan None 경험"
Scenario4Text ==
    <<"JOH", "EUN", " ", "GYEONG", "HEOM", "I", "EOSS", "DA", " ", "n", "a", "n", " ",
      "N", "o", "n", "e", " ", "GYEONG", "HEOM">>

Letters == <<"b", "c", "d", "f", "g", "h", "k", "m">>
\* the n-th two-letter word
Word(n) == <<Letters[((n \div Len(Letters)) % Len(Letters)) + 1], Letters[(n % Len(Letters)) + 1]>>

\* count words from Word(first) on, each followed by a space
LongText(first, count) ==
    AsSeq([p \in 1..(3 * count) |->
              IF p % 3 = 0 THEN " " ELSE Word(first + ((p - 1) \div 3))[p % 3]])
\* long memos overlap by half their words, so pooled counts differ
LongMemo(k) == LongText(k * (MemoWords \div 2), MemoWords)

SeqsUpTo(S, n) == UNION {[1..k -> S] : k \in 0..n}

NoSheets == [ws \in Worksheets |-> <<>>]
DefaultWeights == [c \in Range(TraitCols) |-> WScale]
Weights(a, p, f, l) == [nAch |-> a, nPow |-> p, nAff |-> f, Flow |-> l]

StartRun ==
    /\ pc = "load"
    /\ df = [ws \in Worksheets |-> DataFrame(Columns(ws), <<>>)]
    /\ rank = NoRank
    /\ kw = NoKw
    /\ sim = NoSim
    /\ form = NoForm

\* The full run: sheets with missing, empty, textual and numeric-text trait
\* cells, a repeated name, and a blank row in every worksheet; any set of
\* failing reads; both pages.
MainActRows ==
    {Act(Str(<<"A">>), Num(0), Num(4), Num(0), Num(0), NA),
     Act(Str(<<"B">>), Num(5), Str(<<"a", "b", "c">>), NA, Str(<<>>), Str(Scenario4Text)),
     Act(Str(<<"A">>), Str(<<"1", "0">>), Num(10), Num(0), Num(100), Str(<<"b", "c">>)),
     BlankRow("activities")}
\* the sets of worksheets whose read raises: none, one, the keyword sources,
\* the whole store
ReadFailures ==
    {{}, {"activities"}, {"questions"}, {"subjects", "books"},
     {"activities", "subjects", "books"}, Worksheets}
MainWeights == {DefaultWeights, Weights(0, 0, 0, 0), Weights(5, 0, 20, 30)}

Init ==
    /\ sheets \in {[activities |-> a,
                    subjects |-> <<Subject(Str(<<"S">>), Str(<<"b", "c", " ", "d", "f">>)),
                                   BlankRow("subjects")>>,
                    books |-> <<BlankRow("books"), Book(Str(<<"K">>), Str(<<"b", "c">>))>>,
                    questions |-> <<Question(Str(<<"Q">>), Str(<<"q">>)), BlankRow("questions")>>]
                   : a \in SeqsUpTo(MainActRows, MaxRows)}
    /\ faulty \in ReadFailures
    /\ menu \in {"3", "4"}
    \* the weights are read by page 3 only
    /\ w \in IF menu = "3" THEN MainWeights ELSE {DefaultWeights}
    /\ StartRun

Next == LoadData \/ Page3Ranking \/ Page3Keywords \/ Page4Similarity

Spec == Init /\ [][Next]_vars

\* Ranking runs: the sheet is a run of n consecutive fixture rows (cyclically,
\* from any offset) of a family of MaxRankRows rows with numeric traits; rows
\* 1 and 2 have the same traits, nAff is constant, v varies the values.
RankRow(i, v) ==
    LET j == IF i = 1 THEN 2 ELSE i
    IN Act(Str(IntToChars(i)), Num((j * (3 + v)) % 11), Num((j + v) % 4), Num(v),
           Num((j * (9 + v)) % 101), NA)
RankSheet(n, r, v) == AsSeq([k \in 1..n |-> RankRow(((k + r) % MaxRankRows) + 1, v)])
RankWeights == {DefaultWeights, Weights(5, 0, 20, 30)}

InitRank ==
    /\ sheets \in {[NoSheets EXCEPT !["activities"] = RankSheet(n, r, v)]
                   : n \in 0..MaxRankRows, r \in 0..(MaxRankRows - 1), v \in 0..2}
    /\ faulty = {}
    /\ menu = "3"
    /\ w \in RankWeights
    /\ StartRun

NextPage3 == LoadData \/ Page3Ranking \/ Page3Keywords

SpecRank == InitRank /\ [][NextPage3]_vars

\* Keyword runs: memos that are missing, empty, punctuation, stop words only,
\* the scenario text, and long memos with many distinct words.
KwMemos ==
    {NA, Str(<<>>), Str(<<".", " ", ",">>), Str(<<"I", " ", "GA", " ", "n", "a", "n", " ", "b">>),
     Str(Scenario4Text), Str(LongMemo(0)), Str(LongMemo(1))}
\* LongMemo(0) and LongMemo(1) together hold 3 * MemoWords / 2 distinct words,
\* LongMemo(2) the next MemoWords / 2 new ones

InitKw ==
    /\ sheets \in {[activities |-> a, subjects |-> s, books |-> b, questions |-> <<>>]
                   : a \in SeqsUpTo({Act(Str(<<"A">>), Num(1), Num(1), Num(1), Num(1), m)
                                        : m \in KwMemos}, MaxKwRows),
                     s \in {<<>>, <<Subject(Str(<<"S">>), Str(LongMemo(2)))>>},
                     b \in {<<>>, <<Book(Str(<<"K">>), Str(Scenario4Text))>>}}
    /\ faulty = {}
    /\ menu = "3"
    /\ w = DefaultWeights
    /\ StartRun

SpecKw == InitKw /\ [][NextPage3]_vars

\* Similarity runs: rows with equal trait vectors, equal distances and a
\* repeated name.
SimRows ==
    {Act(Str(<<"A">>), Num(0), Num(0), Num(0), Num(0), NA),
     Act(Str(<<"B">>), Num(0), Num(0), Num(0), Num(0), NA),
     Act(Str(<<"C">>), Num(1), Num(0), Num(0), Num(0), NA),
     Act(Str(<<"A">>), Num(0), Num(1), Num(0), Num(0), NA),
     Act(Str(<<"D">>), Num(2), Num(2), Num(1), Num(0), NA)}

InitSim ==
    /\ sheets \in {[NoSheets EXCEPT !["activities"] = a] : a \in SeqsUpTo(SimRows, MaxSimRows)}
    /\ faulty = {}
    /\ menu = "4"
    /\ w = DefaultWeights
    /\ StartRun

NextPage4 == LoadData \/ Page4Similarity

SpecSim == InitSim /\ [][NextPage4]_vars

\* Form runs: a small store, the questions read failing or not, pages 2 and 5;
\* a question row with no name makes the selectbox offer a missing value.
FormQuestions ==
    {<<>>, <<Question(Str(<<"Q">>), Str(<<"q">>))>>,
     <<Question(NA, Str(<<"q">>)), Question(Str(<<"Q">>), Str(<<"q">>))>>}

InitForm ==
    /\ sheets \in {[activities |-> a, subjects |-> <<>>, books |-> <<>>, questions |-> q]
                   : a \in {<<>>, <<Act(Str(<<"A">>), Num(1), Num(1), Num(1), Num(1), NA)>>},
                     q \in FormQuestions}
    /\ faulty \in {{}, {"questions"}}
    /\ menu \in {"2", "5"}
    /\ w = DefaultWeights
    /\ StartRun

NextForm ==
    \/ LoadData
    \/ SubFormSubmit
    \/ ActFormSubmit
    \/ BookFormSubmit
    \/ NewQFormSubmit
    \/ DraftFormSubmit
    \/ RenderForms
    \/ Rerun

SpecForm == InitForm /\ [][NextForm]_vars

\* ================================================================ claims
NumRows == Len(df["activities"].rows)
MinOf(a, b) == IF a < b THEN a ELSE b

\* the numbers of column c the ranking normalised
RankValues(c) == [i \in 1..Len(rank.act_df) |-> rank.act_df[i][c][2]]

\* C1: when the ranking ran, every trait column with min # max has each
\* record's normalised value equal to (value - min) / (max - min), inside
\* [0, 1]; a column with min = max (a single record included) has every
\* normalised value equal to 0.5; values [0, 5, 10] normalise to 0, 0.5, 1.
C1_Normalization ==
    rank.branch = "chart" =>
        /\ \A c \in Range(TraitCols) :
             LET v == RankValues(c)
                 n == Len(rank.act_df)
                 lo == CHOOSE x \in Range(v) : \A i \in 1..n : x <= v[i]
                 hi == CHOOSE x \in Range(v) : \A i \in 1..n : x >= v[i]
             IN /\ Len(rank.norm[c]) = n
                /\ \A i \in 1..n :
                     LET x == rank.norm[c][i]
                     IN /\ x[2] > 0
                        /\ IF lo # hi
                           THEN /\ x[1] * (hi - lo) = (v[i] - lo) * x[2]
                                /\ 0 <= x[1]
                                /\ x[1] <= x[2]
                           ELSE 2 * x[1] = x[2]
        /\ (/\ Len(rank.act_df) = 3
            /\ RankValues("nAch") = <<0, 5, 10>>)
           => /\ rank.norm["nAch"][1][1] = 0
              /\ 2 * rank.norm["nAch"][2][1] = rank.norm["nAch"][2][2]
              /\ rank.norm["nAch"][3][1] = rank.norm["nAch"][3][2]

\* C1 witness: the ranking ran on achievement values [0, 5, 10] beside a
\* constant column.
C1_Witness ==
    /\ rank.branch = "chart"
    /\ Len(rank.act_df) = 3
    /\ RankValues("nAch") = <<0, 5, 10>>
    /\ \A i \in 1..3 : RankValues("nAff")[i] = RankValues("nAff")[1]
    /\ 2 * rank.norm["nAch"][2][1] = rank.norm["nAch"][2][2]

\* C3: the ranked result holds exactly min(10, N) distinct records in
\* non-decreasing score order, and no record left out scores strictly higher
\* than one that is in.
C3_Ranking ==
    rank.branch = "chart" =>
        LET n == Len(rank.My_Score)
            top == rank.top_df
        IN /\ n = NumRows
           /\ Len(top) = MinOf(TopN, n)
           /\ \A k \in 1..Len(top) : top[k] \in 1..n
           /\ \A k, l \in 1..Len(top) : k # l => top[k] # top[l]
           /\ \A k \in 1..(Len(top) - 1) :
                rank.My_Score[top[k]][1] <= rank.My_Score[top[k + 1]][1]
           /\ \A i \in (1..n) \ Range(top) : \A k \in 1..Len(top) :
                ~(rank.My_Score[i][1] > rank.My_Score[top[k]][1])

\* C3 witness: more than ten records were ranked, with distinct scores among them.
C3_Witness ==
    /\ rank.branch = "chart"
    /\ Len(rank.My_Score) > TopN
    /\ Len(rank.top_df) = TopN
    /\ rank.My_Score[rank.top_df[1]][1] < rank.My_Score[rank.top_df[TopN]][1]

\* the weight vector with column c's weight doubled
DoubleWeight(wv, c) == [wv EXCEPT ![c] = 2 * wv[c]]

\* C4: the composite score is the sum over the four columns of normalised
\* value times weight; doubling one weight adds exactly that column's
\* contribution once more and nothing else; all-zero weights give score 0.
C4_Linearity ==
    rank.branch = "chart" =>
        LET den == [c \in Range(TraitCols) |-> rank.norm[c][1][2]]
            D == den["nAch"] * den["nPow"] * den["nAff"] * den["Flow"]
            \* column c's contribution to record i's score, over D * WScale
            Contribution(i, c, wv) == rank.norm[c][i][1] * wv[c] * (D \div den[c])
        IN \A i \in 1..Len(rank.My_Score) :
             /\ rank.My_Score[i][2] = D * WScale
             /\ rank.My_Score[i][1] =
                  Contribution(i, "nAch", w) + Contribution(i, "nPow", w)
                  + Contribution(i, "nAff", w) + Contribution(i, "Flow", w)
             /\ \A c \in Range(TraitCols) :
                  LET doubled == My_Score(rank.norm, DoubleWeight(w, c))[i]
                  IN /\ doubled[2] = rank.My_Score[i][2]
                     /\ doubled[1] - rank.My_Score[i][1] = Contribution(i, c, w)
             /\ (\A c \in Range(TraitCols) : w[c] = 0) => rank.My_Score[i][1] = 0

\* C4 witness: a ranking under unequal non-zero weights where a record has a
\* positive flow contribution.
C4_Witness ==
    /\ rank.branch = "chart"
    /\ w = Weights(5, 0, 20, 30)
    /\ \E i \in 1..Len(rank.My_Score) :
         /\ rank.norm["Flow"][i][1] > 0
         /\ rank.My_Score[i][1] > 0

\* C5: the keyword table has at most 30 entries, every token has length >= 2
\* and is no stop word, every count is >= 1, no token appears twice, and the
\* counts never increase along the table.
C5_Keywords ==
    LET wc == kw.word_counts
    IN /\ Len(wc) <= MaxKeywords
       /\ \A k \in 1..Len(wc) :
            /\ Len(wc[k][1]) >= 2
            /\ wc[k][1] \notin stop_words
            /\ wc[k][2] >= 1
       /\ \A k, l \in 1..Len(wc) : k # l => wc[k][1] # wc[l][1]
       /\ \A k \in 1..(Len(wc) - 1) : wc[k][2] >= wc[k + 1][2]
       /\ kw.branch = "treemap" <=> wc # <<>>

\* C5 witness: the pooled text holds more than 30 distinct keywords, with
\* different counts, and the table was cut to 30.
C5_Witness ==
    /\ kw.branch = "treemap"
    /\ Len(kw.word_counts) = MaxKeywords
    /\ Len(Counter(SelectSeq(findall(kw.all_text), KeepWord))) > MaxKeywords
    /\ kw.word_counts[1][2] > kw.word_counts[MaxKeywords][2]

\* the count the table gives a token, 0 when it is absent
CountOf(token) ==
    LET hits == {k \in 1..Len(kw.word_counts) : kw.word_counts[k][1] = token}
    IN IF hits = {} THEN 0 ELSE kw.word_counts[CHOOSE k \in hits : TRUE][2]

\* C6 as claimed: for the scenario text the token 경험 is counted twice and
\* nan / None do not appear.
C6_AsClaimed ==
    (kw.branch # "none" /\ kw.all_text = Scenario4Text) =>
        /\ CountOf(<<"GYEONG", "HEOM">>) = 2
        /\ CountOf(<<"n", "a", "n">>) = 0
        /\ CountOf(<<"N", "o", "n", "e">>) = 0

\* C6 amended: for the scenario text the table is 좋은: 1, 경험이었다: 1, 경험: 1
\* (경험이었다 is one word-character run, so 경험 is counted once), and nan /
\* None do not appear.
C6_Scenario4 ==
    (kw.branch # "none" /\ kw.all_text = Scenario4Text) =>
        /\ kw.word_counts = <<<<<<"JOH", "EUN">>, 1>>,
                              <<<<"GYEONG", "HEOM", "I", "EOSS", "DA">>, 1>>,
                              <<<<"GYEONG", "HEOM">>, 1>>>>
        /\ CountOf(<<"n", "a", "n">>) = 0
        /\ CountOf(<<"N", "o", "n", "e">>) = 0

\* C6 witness: the keyword section ran on exactly the scenario text.
C6_Witness ==
    /\ kw.branch = "treemap"
    /\ kw.all_text = Scenario4Text

\* squared distance of row i to the anchor of the kNN query
AnchorDist2(i) == Dist2(sim.act_df[i], sim.act_df[sim.anchor])
\* the position of row i in the reported neighbour list, 0 when not listed
ListedAt(i) ==
    LET at == {k \in 1..Len(sim.neighbor_indices) : sim.neighbor_indices[k] = i}
    IN IF at = {} THEN 0 ELSE CHOOSE k \in at : TRUE

\* C2 as claimed: the reported neighbour list never holds the anchor's own
\* record, has min(4, N) - 1 entries and is in non-decreasing distance order.
C2_AsClaimed ==
    sim.branch = "neighbors" =>
        /\ ListedAt(sim.anchor) = 0
        /\ Len(sim.neighbor_indices) = MinOf(KnnK, Len(sim.act_df)) - 1
        /\ \A k \in 1..(Len(sim.neighbor_indices) - 1) :
             AnchorDist2(sim.neighbor_indices[k]) <= AnchorDist2(sim.neighbor_indices[k + 1])

\* C7 as claimed: of two non-anchor records at the same distance from the
\* anchor, the earlier one is listed first, and is the one listed when only
\* one of them is.
C7_AsClaimed ==
    sim.branch = "neighbors" =>
        \A i, j \in (1..Len(sim.act_df)) \ {sim.anchor} :
            (i < j /\ AnchorDist2(i) = AnchorDist2(j) /\ ListedAt(j) # 0)
                => (ListedAt(i) # 0 /\ ListedAt(i) < ListedAt(j))

\* a sheet cell that is missing, empty or non-numeric text
Malformed(c) == IsNA(c) \/ (IsStr(c) /\ (c[2] = <<>> \/ \E k \in 1..Len(c[2]) : ~IsDigit(c[2][k])))

\* the frame an analysis worked on agrees with the sheet: as many rows, every
\* cell of cols a number, 0 where the sheet cell is malformed, the sheet's
\* number where it holds one
CoercedFrom(act_df, cols) ==
    /\ Len(act_df) = Len(sheets["activities"])
    /\ \A i \in 1..Len(act_df) : \A c \in cols :
         LET cell == sheets["activities"][i][c]
         IN /\ IsNum(act_df[i][c])
            /\ act_df[i][c][2] \in Int
            /\ Malformed(cell) => act_df[i][c] = Num(0)
            /\ IsNum(cell) => act_df[i][c] = cell

\* C8: every trait value the normalisation, the projection or the kNN search
\* works on is a number, and is exactly 0 where the sheet cell was missing,
\* empty or non-numeric.
C8_Coercion ==
    /\ rank.branch = "chart" => CoercedFrom(rank.act_df, Range(TraitCols))
    /\ sim.pca => CoercedFrom(sim.act_df, Range(TraitCols))

\* C8 witness: the ranking ran on a sheet with a missing, an empty and a
\* textual trait cell.
C8_Witness ==
    /\ rank.branch = "chart"
    /\ \E i \in 1..Len(rank.act_df) :
         /\ IsNA(sheets["activities"][i]["nAff"])
         /\ sheets["activities"][i]["Flow"] = Str(<<>>)
         /\ sheets["activities"][i]["nPow"] = Str(<<"a", "b", "c">>)
         /\ rank.act_df[i]["nPow"] = Num(0)

\* C9: with fewer than 3 activities neither the projection nor the kNN query
\* runs and page 4 ends in the warning; they run only with at least 3.
C9_Precondition ==
    /\ (sim.pca \/ sim.knn) => NumRows >= 3
    /\ (pc = "done" /\ menu = "4" /\ NumRows < 3) =>
          (sim.branch = "warning" /\ ~sim.pca /\ ~sim.knn)
    /\ (pc = "done" /\ menu = "4" /\ NumRows >= 3) => sim.pca

\* C9 witness: page 4 ended in the warning on a loaded collection of 2 records.
C9_Witness ==
    /\ pc = "done"
    /\ menu = "4"
    /\ NumRows = 2
    /\ sim.branch = "warning"

\* C10 as claimed: when any read failed, every analysis of the page takes its
\* insufficient-data branch.
C10_AsClaimed ==
    (pc = "done" /\ faulty # {}) =>
        /\ \A ws \in faulty : df[ws] = DataFrame(Columns(ws), <<>>)
        /\ menu = "3" => (rank.branch = "info" /\ kw.branch = "no_memo")
        /\ menu = "4" => sim.branch = "warning"

\* C10 amended: a failed read yields an empty frame with the worksheet's
\* schema and the run goes on; ranking and similarity take their
\* insufficient-data branch when the activities read failed, the keywords
\* when the activities, subjects and books reads all failed.
C10_StoreFailure ==
    /\ pc # "load" => \A ws \in faulty : df[ws] = DataFrame(Columns(ws), <<>>)
    /\ (pc = "done" /\ "activities" \in faulty) =>
          /\ menu = "3" => rank.branch = "info"
          /\ menu = "4" => sim.branch = "warning"
    /\ (pc = "done" /\ menu = "3" /\ {"activities", "subjects", "books"} \subseteq faulty) =>
          kw.branch = "no_memo"

\* C10 witness: every read failed on a store that holds activities and memos,
\* and page 3 ended with the no-activities and the no-memo messages.
C10_Witness ==
    /\ pc = "done"
    /\ menu = "3"
    /\ faulty = Worksheets
    /\ Len(sheets["activities"]) = 3
    /\ rank.branch = "info"
    /\ kw.branch = "no_memo"

\* a sheet row with at least one non-empty cell
NonBlank(r) == \E c \in DOMAIN r : ~IsNA(r[c])

\* C11 as claimed: for each of the four datasets whose read succeeded, the
\* returned records are exactly the sheet's rows that have a non-empty cell, in
\* order (numeric columns coerced): a row whose cells are all empty is removed,
\* every other row is kept.
C11_AsClaimed ==
    pc # "load" =>
        \A ws \in Worksheets \ faulty :
            df[ws].rows = CoerceColumns(SelectSeq(sheets[ws], NonBlank), NumericCols(ws))

\* C12 as claimed: for every entry form, the success message is shown only if
\* add_data returned True; when add_data returned False no success message is
\* shown.
C12_AsClaimed ==
    /\ form.success => form.add_data = "True"
    /\ form.add_data = "False" => ~form.success

====
